---- MODULE Spec2Model ----
(***************************************************************************)
(* Model of the mly.fyi send-email route (src/pages/api/v1/emails/send.ts) *)
(* and of the session-resolving middleware (src/middleware.ts).            *)
(*                                                                         *)
(* Spec    : concurrent runs of the POST /api/v1/emails/send route         *)
(*           (validate, then handle) over the shared emailLogs and         *)
(*           emailLogEvents tables.                                        *)
(* SpecOne : one run of the route on a request body drawn from AllBodies   *)
(*           and kept in `request`, for what the route does with an input. *)
(* SpecMw  : concurrent runs of the onRequest middleware.                  *)
(*                                                                         *)
(* JavaScript values are records tagged by their type, strings are         *)
(* sequences of one-character strings, so that trim, lowercase and split   *)
(* are computed and not assumed.                                           *)
(***************************************************************************)
EXTENDS Integers, Sequences, FiniteSets, TLC

\* ------------------------------------------------------------------ bounds

\* Number of route runs (requests to the send endpoint) that may be in flight.
MaxRuns == 2

\* Number of middleware runs that may be in flight.
MaxMwRuns == 2

Runs == 1..MaxRuns

MwRuns == 1..MaxMwRuns

\* --------------------------------------------------------- JavaScript values

Undef == [t |-> "undefined"]

Null == [t |-> "null"]

Str(s) == [t |-> "string", v |-> s]

Arr(a) == [t |-> "array", v |-> a]

\* JavaScript truthiness of the values used here: undefined, null and the
\* empty string are falsy (the operand of `!` in send.ts and middleware.ts).
Truthy(x) == x.t \notin {"undefined", "null"} /\ ~(x.t = "string" /\ x.v = <<>>)

IsArray(x) == x.t = "array"

\* ------------------------------------------------------------------ strings

RECURSIVE TrimStart(_)
TrimStart(s) == IF s # <<>> /\ Head(s) = " " THEN TrimStart(Tail(s)) ELSE s

RECURSIVE TrimEnd(_)
TrimEnd(s) ==
    IF s # <<>> /\ s[Len(s)] = " " THEN TrimEnd(SubSeq(s, 1, Len(s) - 1)) ELSE s

\* Joi's string().trim() under the default convert: true.
Trim(s) == TrimEnd(TrimStart(s))

LowerChar(c) == CASE c = "A" -> "a" [] c = "B" -> "b" [] OTHER -> c

\* Joi's string().lowercase() under the default convert: true.
Lower(s) == [i \in 1..Len(s) |-> LowerChar(s[i])]

AtPositions(s) == {i \in 1..Len(s) : s[i] = "@"}

Min(S) == CHOOSE x \in S : \A y \in S : x <= y

\* from.split('@')[1]: the text between the first and the second '@', or
\* undefined when the string holds no '@'.
SplitAt1(s) ==
    LET at == AtPositions(s) IN
    IF at = {} THEN Undef
    ELSE LET first == Min(at)
             rest == {i \in at : i > first}
             stop == IF rest = {} THEN Len(s) + 1 ELSE Min(rest)
         IN Str(SubSeq(s, first + 1, stop - 1))

\* Joi's string().email(): one '@', a non-empty local part, a domain of at
\* least two non-empty dot-separated segments, no blanks.
IsEmail(s) ==
    LET at == AtPositions(s) IN
    /\ Cardinality(at) = 1
    /\ \A i \in 1..Len(s) : s[i] # " "
    /\ LET a == Min(at)
           dots == {i \in (a + 1)..Len(s) : s[i] = "."}
       IN /\ a > 1
          /\ dots # {}
          /\ \A d \in dots : d > a + 1 /\ d < Len(s) /\ (d + 1) \notin dots

\* ------------------------------------------------------------- validation

FieldOk(v) == [ok |-> TRUE, value |-> v, code |-> "none"]

FieldErr(c) == [ok |-> FALSE, value |-> Undef, code |-> c]

\* One Joi.string() key of the schema: required/optional, allow(''),
\* lowercase(), email(), always trim().
JoiString(x, required, allowEmpty, lower, email) ==
    IF x = Undef THEN (IF required THEN FieldErr("any.required") ELSE FieldOk(Undef))
    ELSE IF x.t # "string" THEN FieldErr("string.base")
    ELSE LET t == Trim(x.v)
             s == IF lower THEN Lower(t) ELSE t
         IN IF s = <<>>
            THEN (IF allowEmpty THEN FieldOk(Str(s)) ELSE FieldErr("string.empty"))
            ELSE IF email /\ ~IsEmail(s) THEN FieldErr("string.email")
            ELSE FieldOk(Str(s))

Fields == {"from", "to", "replyTo", "subject", "text", "html"}

\* schema.validate(params.body, {abortEarly: false, stripUnknown: true}).
\* The headers key (an optional string map defaulting to {}) is only passed
\* on to the provider and is not modelled.
SchemaValidate(body) ==
    [from    |-> JoiString(body.from, TRUE, FALSE, FALSE, FALSE),
     to      |-> JoiString(body.to, TRUE, FALSE, TRUE, TRUE),
     replyTo |-> JoiString(body.replyTo, FALSE, FALSE, TRUE, TRUE),
     subject |-> JoiString(body.subject, TRUE, FALSE, FALSE, FALSE),
     text    |-> JoiString(body.text, FALSE, TRUE, FALSE, FALSE),
     html    |-> JoiString(body.html, FALSE, TRUE, FALSE, FALSE)]

SchemaErrors(body) ==
    LET r == SchemaValidate(body) IN {<<f, r[f].code>> : f \in {g \in Fields : ~r[g].ok}}

SchemaValue(body) ==
    LET r == SchemaValidate(body) IN [f \in Fields |-> r[f].value]

\* Thrown errors and results of a run.
NoResult == [type |-> "none"]

ValidationError(details) == [type |-> "ValidationError", details |-> details]

HttpError(kind, message) == [type |-> "HttpError", kind |-> kind, message |-> message]

JsonResponse(id) == [type |-> "json", id |-> id]

EitherRequired == HttpError("bad_request", "Either text or html is required.")

\* Mutant of BodyMissing: only an absent key counts as missing.
BodyMissingUndefinedOnly(value) == value.text = Undef /\ value.html = Undef

\* The body check of validate after the schema has passed.
BodyMissing(value) == ~Truthy(value.text) /\ ~Truthy(value.html)

\* validate(params): the thrown error, or NoResult when the body is accepted.
ValidateThrows(body) ==
    IF SchemaErrors(body) # {} THEN ValidationError(SchemaErrors(body))
    ELSE IF BodyMissing(SchemaValue(body)) THEN EitherRequired
    ELSE NoResult

\* --------------------------------------------------------------- requests

FromVerified == Str(<<" ", "a", "@", "v">>)

ToSingle == Str(<<"B", "@", "c", ".", "d">>)

ToArray == Arr(<<<<"b", "@", "c", ".", "d">>, <<"e", "@", "c", ".", "d">>>>)

\* Raw values of the from key: absent, the verified domain v (with a blank to
\* trim), the pending domain p, the domain n without a configuration set, the
\* domain e with an empty configuration set name, the unknown domain x, and a
\* text without '@'.
FromValues ==
    {Undef, FromVerified, Str(<<"a", "@", "p">>), Str(<<"a", "@", "n">>),
     Str(<<"a", "@", "e">>), Str(<<"a", "@", "x">>), Str(<<"a">>)}

ToValues == {Undef, ToSingle, ToArray, Str(<<"b">>)}

ReplyToValues == {Undef, Str(<<"r", "@", "c", ".", "d">>), ToArray}

SubjectValues == {Undef, Str(<<"s">>)}

TextValues == {Undef, Str(<<>>), Str(<<" ">>), Str(<<"t">>)}

HtmlValues == {Undef, Str(<<>>), Str(<<"h">>)}

BaseBody ==
    [from |-> FromVerified, to |-> ToSingle, replyTo |-> Undef,
     subject |-> Str(<<"s">>), text |-> Str(<<"t">>), html |-> Undef]

\* The raw values a key may take.
RawValues(key) ==
    CASE key = "from" -> FromValues
      [] key = "to" -> ToValues
      [] key = "replyTo" -> ReplyToValues
      [] key = "subject" -> SubjectValues
      [] key = "text" -> TextValues
      [] key = "html" -> HtmlValues

\* The request bodies the concurrent runs are given: BaseBody with one key
\* changed to each of its raw values.
Bodies == UNION {{[BaseBody EXCEPT ![key] = v] : v \in RawValues(key)} : key \in Fields}

\* Every combination of the raw values.
AllBodies ==
    [from : FromValues, to : ToValues, replyTo : ReplyToValues,
     subject : SubjectValues, text : TextValues, html : HtmlValues]

\* ------------------------------------------------------- read-only tables

\* projects: p1 holds provider credentials, p2 lacks them.
Projects ==
    {[id |-> "p1", accessKeyId |-> Str(<<"k">>), secretAccessKey |-> Str(<<"s">>)],
     [id |-> "p2", accessKeyId |-> Null, secretAccessKey |-> Str(<<"s">>)]}

NoProject == [id |-> "none", accessKeyId |-> Null, secretAccessKey |-> Null]

\* The API keys authenticateApiKey can resolve; k3 belongs to a project that
\* no longer exists.
ApiKeys ==
    {[id |-> "k1", projectId |-> "p1"], [id |-> "k2", projectId |-> "p2"],
     [id |-> "k3", projectId |-> "p3"]}

NoApiKey == [id |-> "none", projectId |-> "none"]

ProjectIdentities ==
    {[projectId |-> "p1", domain |-> <<"v">>, status |-> "success",
      configurationSetName |-> Str(<<"c">>)],
     [projectId |-> "p1", domain |-> <<"p">>, status |-> "pending",
      configurationSetName |-> Str(<<"c">>)],
     [projectId |-> "p1", domain |-> <<"n">>, status |-> "success",
      configurationSetName |-> Null],
     [projectId |-> "p1", domain |-> <<"e">>, status |-> "success",
      configurationSetName |-> Str(<<>>)],
     [projectId |-> "p2", domain |-> <<"v">>, status |-> "success",
      configurationSetName |-> Str(<<"c">>)]}

\* The identity query returned no row.
NoIdentity ==
    [projectId |-> "none", domain |-> <<>>, status |-> "none",
     configurationSetName |-> Null]

\* The identity query has not settled.
UnsetIdentity ==
    [projectId |-> "unset", domain |-> <<>>, status |-> "unset",
     configurationSetName |-> Null]

\* db.query.projects.findFirst where id = projectId.
FindProject(projectId) ==
    IF \E p \in Projects : p.id = projectId
    THEN CHOOSE p \in Projects : p.id = projectId
    ELSE NoProject

IdentityMatches(projectId, fromDomain) ==
    {i \in ProjectIdentities : i.projectId = projectId /\ Str(i.domain) = fromDomain}

\* db.query.projectIdentities.findFirst where projectId and domain match.
FindIdentity(projectId, fromDomain) ==
    IF IdentityMatches(projectId, fromDomain) # {}
    THEN CHOOSE i \in IdentityMatches(projectId, fromDomain) : TRUE
    ELSE NoIdentity

\* --------------------------------------------------------------- provider

SendOk(messageId) == [ok |-> TRUE, messageId |-> messageId, message |-> ""]

SendError(message) == [ok |-> FALSE, messageId |-> "", message |-> message]

NoSend == [ok |-> FALSE, messageId |-> "", message |-> "not sent"]

\* What sendEmail can return: {data} with a message id, or {error}.
SendOutcomes == {SendOk("m1"), SendError("MessageRejected"), SendError("Throttling")}

\* ------------------------------------------------------------------- state

VARIABLES
    runs,            \* route run -> its position, locals and result
    emailLogs,       \* the emailLogs table (rows)
    emailLogEvents,  \* the emailLogEvents table (rows)
    nextId,          \* ids handed out by newId so far
    request,         \* SpecOne: the raw body of the request of run 1
    mw,              \* middleware run -> its position, context and outcome
    DEV              \* import.meta.env.DEV

vars == <<runs, emailLogs, emailLogEvents, nextId, request, mw, DEV>>

NoId == [prefix |-> "none", n |-> 0]

\* newId(prefix): an id no earlier call returned.
NewId(prefix, k) == [prefix |-> prefix, n |-> nextId + k]

\* The keys of the validated body that handle branches on or that identify
\* the mail; subject, text and html are only copied into the log row and are
\* not kept.
HandleKeys == {"from", "to", "replyTo"}

\* params.body as handle receives it from validate.
HandleBody(value) == [f \in HandleKeys |-> value[f]]

NoBody == [f \in HandleKeys |-> Undef]

\* const {from, to, replyTo, ...} = body: once replyTo has passed the
\* multi-recipient check it is only copied into the log row and is not kept.
Destructured(body) == [body EXCEPT !.replyTo = Undef]

\* A run before its request arrives. called, loggedIds and eventIds record
\* what the run has done: whether it invoked sendEmail and the primary keys
\* of the rows it inserted.
IdleRun ==
    [pc |-> "idle", body |-> NoBody, projectApiKey |-> NoApiKey,
     project |-> NoProject, fromDomain |-> Undef, identity |-> UnsetIdentity,
     send |-> NoSend, emailLogId |-> NoId, emailLogEventId |-> NoId,
     logRowId |-> NoId, result |-> NoResult, called |-> FALSE,
     loggedIds |-> {}, eventIds |-> {}]

\* The users table: one user, id 1.
Users == {[id |-> "1", email |-> "u1@c.d", name |-> "U1"]}

NoUser == [id |-> "none", email |-> "", name |-> ""]

\* A session token is the text u followed by the subject id.
IsToken(s) == Len(s) = 2 /\ s[1] = "u"

\* decodeToken(token).id, for a token that decodes.
DecodeToken(s) == s[2]

\* Values of the session cookie: absent, empty, a token of user 1, a token
\* whose subject matches no user, and a text that does not decode.
CookieValues == {Undef, Str(<<>>), Str(<<"u", "1">>), Str(<<"u", "2">>), Str(<<"x">>)}

\* db.query.users.findFirst where id matches, columns id, email, name.
FindUser(id) ==
    IF \E u \in Users : u.id = id THEN CHOOSE u \in Users : u.id = id ELSE NoUser

\* A middleware run before its request arrives: the cookie of the request,
\* the decoded subject id, how the user query settled ("no": not yet,
\* "user", "none", "error"), context.locals, and what the run has done
\* (cookie deleted, next() called, lookups issued, errors logged, the error
\* that left onRequest).
IdleMw ==
    [pc |-> "idle", cookie |-> Undef, id |-> "", settled |-> "no",
     currentUser |-> NoUser, currentUserId |-> "", cookieDeleted |-> FALSE,
     nextCalled |-> FALSE, lookups |-> 0, logged |-> FALSE, error |-> NoResult]

RouteInit ==
    /\ runs = [r \in Runs |-> IdleRun]
    /\ emailLogs = {}
    /\ emailLogEvents = {}
    /\ nextId = 0

Init ==
    /\ RouteInit
    /\ request = BaseBody
    /\ mw = [m \in MwRuns |-> IdleMw]
    /\ DEV = FALSE

\* The run is over with `result` (a thrown error or the response); its
\* request body goes out of scope.
End(run, pc, result) == [run EXCEPT !.pc = pc, !.result = result, !.body = NoBody]

Throw(r, error) == runs' = [runs EXCEPT ![r] = End(runs[r], "done", error)]

\* POST handler, first part: validate(params), up to the call of
\* authenticateApiKey. Runs are numbered in the order their requests arrive.
Receive(r, body) ==
    /\ runs[r].pc = "idle"
    /\ \A q \in Runs : q < r => runs[q].pc # "idle"
    /\ IF ValidateThrows(body) # NoResult
       THEN Throw(r, ValidateThrows(body))
       ELSE runs' = [runs EXCEPT ![r].pc = "authenticate",
                                 ![r].body = HandleBody(SchemaValue(body))]
    /\ UNCHANGED <<emailLogs, emailLogEvents, nextId, request, mw, DEV>>

Unauthorized == HttpError("unauthorized", "Invalid API key")

\* handle: authenticateApiKey(context) settles, with a key record or with
\* an authentication error; then the project query is issued.
Authenticate(r) ==
    /\ runs[r].pc = "authenticate"
    /\ \/ Throw(r, Unauthorized)
       \/ \E key \in ApiKeys :
             runs' = [runs EXCEPT ![r].pc = "loadProject", ![r].projectApiKey = key]
    /\ UNCHANGED <<emailLogs, emailLogEvents, nextId, request, mw, DEV>>

MultipleRecipients == HttpError("bad_request", "Multiple recipients are not supported.")

\* handle: the project query settles; project check, multi-recipient check
\* and split of from, up to the issue of the identity query.
LoadProject(r) ==
    /\ runs[r].pc = "loadProject"
    /\ LET project == FindProject(runs[r].projectApiKey.projectId)
           body == runs[r].body
       IN IF project = NoProject
          THEN Throw(r, HttpError("not_found", "Project not found"))
          ELSE IF IsArray(body.to) \/ IsArray(body.replyTo)
          THEN runs' = [runs EXCEPT
                   ![r] = End([runs[r] EXCEPT !.project = project], "done",
                              MultipleRecipients)]
          ELSE runs' = [runs EXCEPT ![r].pc = "lookupIdentity",
                                    ![r].project = project,
                                    ![r].body = Destructured(body),
                                    ![r].fromDomain = SplitAt1(body.from.v)]
    /\ UNCHANGED <<emailLogs, emailLogEvents, nextId, request, mw, DEV>>

NotAllowed == HttpError("bad_request", "You are not allowed to send email from this domain.")

NotVerified == HttpError("bad_request", "Identity is not verified.")

NotConfigured == HttpError("bad_request", "Configuration set is not configured for this domain.")

InvalidCredentials == HttpError("bad_request", "Invalid project credentials")

\* Mutant of IdentityThrows: the status check is left out.
IdentityThrowsNoStatusCheck(identity, project) ==
    IF identity = NoIdentity THEN NotAllowed
    ELSE IF ~Truthy(identity.configurationSetName) THEN NotConfigured
    ELSE IF ~Truthy(project.accessKeyId) \/ ~Truthy(project.secretAccessKey)
    THEN InvalidCredentials
    ELSE NoResult

\* Mutant of IdentityThrows: a missing identity is reported as not_found.
IdentityThrowsNotFound(identity, project) ==
    IF identity = NoIdentity THEN HttpError("not_found", "Identity not found")
    ELSE IF identity.status # "success" THEN NotVerified
    ELSE IF ~Truthy(identity.configurationSetName) THEN NotConfigured
    ELSE IF ~Truthy(project.accessKeyId) \/ ~Truthy(project.secretAccessKey)
    THEN InvalidCredentials
    ELSE NoResult

\* The checks of handle between the identity query and the provider call:
\* the error thrown, or NoResult when sendEmail is to be called.
IdentityThrows(identity, project) ==
    IF identity = NoIdentity THEN NotAllowed
    ELSE IF identity.status # "success" THEN NotVerified
    ELSE IF ~Truthy(identity.configurationSetName) THEN NotConfigured
    ELSE IF ~Truthy(project.accessKeyId) \/ ~Truthy(project.secretAccessKey)
    THEN InvalidCredentials
    ELSE NoResult

\* handle: the identity query settles; identity, configuration set and
\* credential checks, up to the call of sendEmail.
LookupIdentity(r) ==
    /\ runs[r].pc = "lookupIdentity"
    /\ LET identity == FindIdentity(runs[r].project.id, runs[r].fromDomain)
           error == IdentityThrows(identity, runs[r].project)
       IN IF error # NoResult
          THEN runs' = [runs EXCEPT
                   ![r] = End([runs[r] EXCEPT !.identity = identity], "done", error)]
          ELSE runs' = [runs EXCEPT ![r].pc = "dispatch", ![r].identity = identity,
                                    ![r].called = TRUE]
    /\ UNCHANGED <<emailLogs, emailLogEvents, nextId, request, mw, DEV>>

\* The primary key of the log row: a further newId('emailLog') on the error
\* branch, emailLogId on the success branch.
LogRowId(send) == IF send.ok THEN NewId("emailLog", 1) ELSE NewId("emailLog", 3)

IdsTaken(send) == IF send.ok THEN 2 ELSE 3

\* Mutant of ProviderReturns: the insert of the log row is skipped.
ProviderReturnsSkipsLog(r, send) ==
    /\ runs[r].pc = "dispatch"
    /\ runs' = [runs EXCEPT ![r].pc = "insertEvent", ![r].send = send,
                            ![r].emailLogId = NewId("emailLog", 1),
                            ![r].emailLogEventId = NewId("emailLogEvent", 2),
                            ![r].logRowId = LogRowId(send)]
    /\ nextId' = nextId + IdsTaken(send)
    /\ UNCHANGED <<emailLogs, emailLogEvents, request, mw, DEV>>

\* handle: sendEmail settles with {data} or {error}; the two ids are
\* generated and the insert of the log row is issued.
ProviderReturns(r, send) ==
    /\ runs[r].pc = "dispatch"
    /\ runs' = [runs EXCEPT ![r].pc = "insertLog", ![r].send = send,
                            ![r].emailLogId = NewId("emailLog", 1),
                            ![r].emailLogEventId = NewId("emailLogEvent", 2),
                            ![r].logRowId = LogRowId(send)]
    /\ nextId' = nextId + IdsTaken(send)
    /\ UNCHANGED <<emailLogs, emailLogEvents, request, mw, DEV>>

\* The values of the emailLogs insert (replyTo, subject, text, html,
\* createdAt and updatedAt left out).
LogRow(run) ==
    [id |-> run.logRowId,
     messageId |-> IF run.send.ok THEN run.send.messageId ELSE "",
     projectId |-> run.project.id, apiKeyId |-> run.projectApiKey.id,
     from |-> run.body.from, to |-> run.body.to,
     status |-> IF run.send.ok THEN "sending" ELSE "error"]

\* Mutant of EventRow: the event type is sending on both branches.
EventRowAlwaysSending(run) ==
    [id |-> run.emailLogEventId, emailLogId |-> run.emailLogId,
     email |-> run.body.to, type |-> "sending"]

\* The values of the emailLogEvents insert (timestamp left out).
EventRow(run) ==
    [id |-> run.emailLogEventId, emailLogId |-> run.emailLogId,
     email |-> run.body.to,
     type |-> IF run.send.ok THEN "sending" ELSE "error"]

\* handle: the insert into emailLogs is applied (the primary key is unique);
\* the insert of the event row is issued.
InsertLog(r) ==
    /\ runs[r].pc = "insertLog"
    /\ \A l \in emailLogs : l.id # runs[r].logRowId
    /\ emailLogs' = emailLogs \cup {LogRow(runs[r])}
    /\ runs' = [runs EXCEPT ![r].pc = "insertEvent",
                            ![r].loggedIds = @ \cup {runs[r].logRowId}]
    /\ UNCHANGED <<emailLogEvents, nextId, request, mw, DEV>>

\* Mutant of Outcome: the response carries the id of the event.
OutcomeEventId(run) ==
    IF run.send.ok THEN JsonResponse(run.emailLogEventId)
    ELSE HttpError("bad_request", run.send.message)

\* What handle ends with once both rows are written.
Outcome(run) ==
    IF run.send.ok THEN JsonResponse(run.emailLogId)
    ELSE HttpError("bad_request", run.send.message)

\* handle: the insert into emailLogEvents is applied; then the provider's
\* error is thrown as bad_request, or the log id is returned.
InsertEvent(r) ==
    /\ runs[r].pc = "insertEvent"
    /\ \A e \in emailLogEvents : e.id # runs[r].emailLogEventId
    /\ emailLogEvents' = emailLogEvents \cup {EventRow(runs[r])}
    /\ runs' = [runs EXCEPT
           ![r] = End([runs[r] EXCEPT !.eventIds = @ \cup {runs[r].emailLogEventId}],
                      "done", Outcome(runs[r]))]
    /\ UNCHANGED <<emailLogs, nextId, request, mw, DEV>>

DatastoreError == [type |-> "DatastoreError"]

\* An awaited insert rejects (or the process dies while it is pending), or
\* the identity query is given an undefined domain and the driver refuses
\* to bind it: the exception leaves handle, nothing further is written.
DatastoreFails(r) ==
    /\ \/ runs[r].pc \in {"insertLog", "insertEvent"}
       \/ runs[r].pc = "lookupIdentity" /\ runs[r].fromDomain = Undef
    /\ runs' = [runs EXCEPT ![r] = End(runs[r], "failed", DatastoreError)]
    /\ UNCHANGED <<emailLogs, emailLogEvents, nextId, request, mw, DEV>>

\* ------------------------------------------------------------- middleware

InvalidToken == [type |-> "InvalidToken"]

\* return next(): control goes to the downstream handler.
CallNext(run) == [run EXCEPT !.pc = "done", !.nextCalled = TRUE]

\* onRequest up to the user query: read the cookie; without a value go on
\* to next(); otherwise decodeToken, which is outside the try block, and
\* issue the query.
MwStartRun(run, cookie) ==
    LET got == [run EXCEPT !.cookie = cookie] IN
    IF ~Truthy(cookie) THEN CallNext(got)
    ELSE IF ~IsToken(cookie.v) THEN [got EXCEPT !.pc = "done", !.error = InvalidToken]
    ELSE [got EXCEPT !.pc = "lookup", !.id = DecodeToken(cookie.v), !.lookups = @ + 1]

MwStart(m, cookie) ==
    /\ mw[m].pc = "idle"
    /\ mw' = [mw EXCEPT ![m] = MwStartRun(mw[m], cookie)]
    /\ UNCHANGED <<runs, emailLogs, emailLogEvents, nextId, request, DEV>>

\* The user query settled with `user` (NoUser when no row matches).
MwFoundRun(run, user) ==
    IF user = NoUser
    THEN CallNext([run EXCEPT !.settled = "none", !.cookieDeleted = TRUE])
    ELSE CallNext([run EXCEPT !.settled = "user", !.currentUser = user,
                              !.currentUserId = user.id])

MwLookup(m) ==
    /\ mw[m].pc = "lookup"
    /\ mw' = [mw EXCEPT ![m] = MwFoundRun(mw[m], FindUser(mw[m].id))]
    /\ UNCHANGED <<runs, emailLogs, emailLogEvents, nextId, request, DEV>>

\* Mutant of MwCatchRun: the cookie is deleted in development too.
MwCatchRunAlwaysDelete(run, dev) ==
    CallNext([run EXCEPT !.settled = "error", !.cookieDeleted = TRUE])

\* The catch block: the user query rejected.
MwCatchRun(run, dev) ==
    IF ~dev THEN CallNext([run EXCEPT !.settled = "error", !.cookieDeleted = TRUE])
    ELSE CallNext([run EXCEPT !.settled = "error", !.logged = TRUE])

MwLookupFails(m) ==
    /\ mw[m].pc = "lookup"
    /\ mw' = [mw EXCEPT ![m] = MwCatchRun(mw[m], DEV)]
    /\ UNCHANGED <<runs, emailLogs, emailLogEvents, nextId, request, DEV>>

InitMw ==
    /\ RouteInit
    /\ request = BaseBody
    /\ mw = [m \in MwRuns |-> IdleMw]
    /\ DEV \in BOOLEAN

NextMw ==
    \/ \E m \in MwRuns : \E cookie \in CookieValues : MwStart(m, cookie)
    \/ \E m \in MwRuns : MwLookup(m)
    \/ \E m \in MwRuns : MwLookupFails(m)

SpecMw == InitMw /\ [][NextMw]_vars

Next ==
    \/ \E r \in Runs : \E body \in Bodies : Receive(r, body)
    \/ \E r \in Runs : Authenticate(r)
    \/ \E r \in Runs : LoadProject(r)
    \/ \E r \in Runs : LookupIdentity(r)
    \/ \E r \in Runs : \E send \in SendOutcomes : ProviderReturns(r, send)
    \/ \E r \in Runs : InsertLog(r)
    \/ \E r \in Runs : InsertEvent(r)
    \/ \E r \in Runs : DatastoreFails(r)

Spec == Init /\ [][Next]_vars

\* One request: its raw body is drawn at the start and run 1 handles it.
InitOne ==
    /\ RouteInit
    /\ request \in AllBodies
    /\ mw = [m \in MwRuns |-> IdleMw]
    /\ DEV = FALSE

NextOne ==
    \/ Receive(1, request)
    \/ Authenticate(1)
    \/ LoadProject(1)
    \/ LookupIdentity(1)
    \/ \E send \in SendOutcomes : ProviderReturns(1, send)
    \/ InsertLog(1)
    \/ InsertEvent(1)
    \/ DatastoreFails(1)

SpecOne == InitOne /\ [][NextOne]_vars

\* ------------------------------------------------------------ properties

\* The rows a run has inserted.
RunLogs(r) == {l \in emailLogs : l.id \in runs[r].loggedIds}

RunEvents(r) == {e \in emailLogEvents : e.id \in runs[r].eventIds}

\* sendEmail returned {error} to the run.
ProviderFailed(run) == run.send # NoSend /\ ~run.send.ok

\* The run has written nothing and has not called the provider.
Untouched(r) == ~runs[r].called /\ runs[r].loggedIds = {} /\ runs[r].eventIds = {}

BadRequest(result) == result.type = "HttpError" /\ result.kind = "bad_request"

\* C1: once every run that started has completed (with the response or with
\* the provider's error), every emailLogs row has at least one
\* emailLogEvents row whose emailLogId is the row's id.
C1_EveryLogHasEvent ==
    (\A r \in Runs : runs[r].pc \in {"idle", "done"})
        => \A l \in emailLogs : \E e \in emailLogEvents : e.emailLogId = l.id

\* C2: a run whose provider dispatch succeeded and that has completed has
\* persisted exactly one emailLogs row, of status sending, and exactly one
\* emailLogEvents row, of type sending and referencing that log row, and
\* its response carries a generated id that is the id of that log row.
C2_SuccessPersistsPair ==
    \A r \in Runs :
        (runs[r].pc = "done" /\ runs[r].send.ok) =>
            /\ runs[r].result.type = "json"
            /\ runs[r].result.id # NoId
            /\ Cardinality(RunLogs(r)) = 1
            /\ Cardinality(RunEvents(r)) = 1
            /\ Cardinality({l \in emailLogs : l.id = runs[r].result.id}) = 1
            /\ \A l \in RunLogs(r) : l.status = "sending" /\ l.id = runs[r].result.id
            /\ \A e \in RunEvents(r) :
                  e.type = "sending" /\ e.emailLogId = runs[r].result.id

\* C2 witness: a run has completed after a successful dispatch while another
\* run has written a log row of its own.
C2_Witness ==
    \E r, q \in Runs :
        /\ r # q
        /\ runs[r].pc = "done" /\ runs[r].send.ok
        /\ runs[q].loggedIds # {}

\* C3: a run whose provider dispatch failed raises nothing before it has
\* persisted exactly one emailLogs row of status error and exactly one
\* emailLogEvents row of type error, and what it then raises is a
\* bad_request carrying the provider's error message.
C3_FailurePersistsPair ==
    \A r \in Runs :
        ProviderFailed(runs[r]) =>
            /\ runs[r].pc \in {"insertLog", "insertEvent"} => runs[r].result = NoResult
            /\ runs[r].pc = "done" =>
                  /\ runs[r].result = HttpError("bad_request", runs[r].send.message)
                  /\ Cardinality(RunLogs(r)) = 1
                  /\ Cardinality(RunEvents(r)) = 1
                  /\ \A l \in RunLogs(r) : l.status = "error"
                  /\ \A e \in RunEvents(r) : e.type = "error"

\* C3 witness: two runs have completed after failed dispatches with
\* different provider messages.
C3_Witness ==
    \E r, q \in Runs :
        /\ runs[r].pc = "done" /\ ProviderFailed(runs[r])
        /\ runs[q].pc = "done" /\ ProviderFailed(runs[q])
        /\ runs[r].send.message # runs[q].send.message

\* The identity row found may not be used for sending.
IdentityUnusable(identity) ==
    identity.status # "success" \/ ~Truthy(identity.configurationSetName)

\* C4: sendEmail is invoked only by a run whose identity row has status
\* success and a configuration set name; a run whose identity row has
\* another status or lacks the configuration set name has ended with a
\* bad_request, has not called the provider and has written no row.
C4_DispatchOnlyWhenVerified ==
    \A r \in Runs :
        /\ runs[r].called =>
              /\ runs[r].identity.status = "success"
              /\ runs[r].identity.configurationSetName # Null
              /\ Truthy(runs[r].identity.configurationSetName)
        /\ (runs[r].identity \in ProjectIdentities /\ IdentityUnusable(runs[r].identity)) =>
              /\ runs[r].pc = "done"
              /\ BadRequest(runs[r].result)
              /\ Untouched(r)

\* C4 witness: one run was refused for a pending identity and another for
\* an identity without a configuration set.
C4_Witness ==
    \E r, q \in Runs :
        /\ runs[r].identity \in ProjectIdentities
        /\ runs[r].identity.status = "pending"
        /\ runs[q].identity \in ProjectIdentities
        /\ runs[q].identity.status = "success"
        /\ runs[q].identity.configurationSetName = Null
        /\ runs[r].pc = "done" /\ runs[q].pc = "done"

\* The raw request names several recipients.
RequestHasArray == IsArray(request.to) \/ IsArray(request.replyTo)

\* C5: a request whose to or replyTo is an array, sent through the route
\* (validate, then handle), is rejected with the error "Multiple recipients
\* are not supported." and without any identity lookup.
C5_ArrayRejectedAsMultiple ==
    (RequestHasArray /\ runs[1].pc = "done") =>
        /\ runs[1].result = MultipleRecipients
        /\ runs[1].identity = UnsetIdentity

\* The identity query of the run was made for a domain and matched no row.
NoMatchingIdentity(run) == run.identity = NoIdentity /\ run.fromDomain # Undef

\* C6 as stated: a run whose from domain matches no identity row of the
\* caller's project is rejected with the kind not_found, without a provider
\* call and without a row written.
C6_NoIdentityNotFound ==
    \A r \in Runs :
        NoMatchingIdentity(runs[r]) =>
            /\ runs[r].pc = "done"
            /\ runs[r].result.type = "HttpError"
            /\ runs[r].result.kind = "not_found"
            /\ Untouched(r)

\* C6 amended: a run whose from domain matches no identity row of the
\* caller's project is rejected with the kind bad_request (the "not allowed
\* to send from this domain" error), without a provider call and without a
\* row written.
C6_NoIdentityBadRequest ==
    \A r \in Runs :
        NoMatchingIdentity(runs[r]) =>
            /\ runs[r].pc = "done"
            /\ runs[r].result = NotAllowed
            /\ BadRequest(runs[r].result)
            /\ Untouched(r)

\* C6 witness: a run asked for the unknown domain x of project p1 and ended.
C6_Witness ==
    \E r \in Runs :
        /\ NoMatchingIdentity(runs[r])
        /\ runs[r].fromDomain = Str(<<"x">>)
        /\ runs[r].project.id = "p1"
        /\ runs[r].pc = "done"

\* A raw value is a text with a character other than the blank.
NonBlank(x) == x.t = "string" /\ \E i \in 1..Len(x.v) : x.v[i] # " "

Supplied(x) == x # Undef

\* The run was rejected by validate.
RejectedByValidate(run) ==
    run.pc = "done" /\ (run.result.type = "ValidationError" \/ run.result = EitherRequired)

\* C7 as stated: validate rejects a request that passes the schema, for its
\* body content, exactly when neither text nor html is supplied, an empty
\* string counting as supplied; a rejected request writes no row.
C7_RejectsWhenNotSupplied ==
    runs[1].pc # "idle" =>
        /\ (runs[1].result = EitherRequired) <=>
              /\ SchemaErrors(request) = {}
              /\ ~Supplied(request.text)
              /\ ~Supplied(request.html)
        /\ RejectedByValidate(runs[1]) =>
              emailLogs = {} /\ emailLogEvents = {} /\ Untouched(1)

\* C7 amended: validate rejects a request that passes the schema, for its
\* body content, exactly when neither text nor html is a text holding a
\* character other than the blank (an absent, empty or blank value does not
\* count); a rejected request writes no row.
C7_RejectsWhenBlank ==
    runs[1].pc # "idle" =>
        /\ (runs[1].result = EitherRequired) <=>
              /\ SchemaErrors(request) = {}
              /\ ~NonBlank(request.text)
              /\ ~NonBlank(request.html)
        /\ RejectedByValidate(runs[1]) =>
              emailLogs = {} /\ emailLogEvents = {} /\ Untouched(1)

\* C7 witness: the request with text "" and no html, all else valid, has
\* been rejected for its body content.
C7_Witness ==
    /\ request = [BaseBody EXCEPT !.text = Str(<<>>)]
    /\ runs[1].result = EitherRequired
    /\ emailLogs = {}

\* C8: every middleware run that has ended has called next() and has let no
\* error out of onRequest, whatever the cookie, the decoding and the user
\* query did.
C8_AlwaysCallsNext ==
    \A m \in MwRuns :
        mw[m].pc = "done" => mw[m].nextCalled /\ mw[m].error = NoResult

Unauthenticated(run) == run.currentUser = NoUser /\ run.currentUserId = ""

\* C9: a middleware run that has ended, with a cookie whose token decodes:
\* when the query returned no user, or failed outside development, the
\* cookie is deleted and next() was called with currentUser unset; when the
\* query failed in development the cookie is kept, the error is logged and
\* next() was called with currentUser unset. Without a cookie no query was
\* issued and currentUser is unset.
C9_SessionOutcomes ==
    \A m \in MwRuns :
        mw[m].pc = "done" =>
            /\ (mw[m].settled = "none" \/ (mw[m].settled = "error" /\ ~DEV)) =>
                  /\ mw[m].cookieDeleted /\ ~mw[m].logged
                  /\ mw[m].nextCalled /\ mw[m].error = NoResult
                  /\ Unauthenticated(mw[m])
            /\ (mw[m].settled = "error" /\ DEV) =>
                  /\ ~mw[m].cookieDeleted /\ mw[m].logged
                  /\ mw[m].nextCalled /\ mw[m].error = NoResult
                  /\ Unauthenticated(mw[m])
            /\ mw[m].cookie = Undef =>
                  /\ mw[m].lookups = 0 /\ mw[m].settled = "no"
                  /\ mw[m].nextCalled /\ ~mw[m].cookieDeleted
                  /\ Unauthenticated(mw[m])

\* C9 witness: in development, one run met a failing query and another a
\* token whose subject matches no user.
C9_Witness ==
    /\ DEV
    /\ \E m, n \in MwRuns :
          /\ mw[m].pc = "done" /\ mw[m].settled = "error"
          /\ mw[n].pc = "done" /\ mw[n].settled = "none"

\* C10: at every state, a run that has written its event row has written
\* its log row, a run that has written its log row has had its provider
\* call return, and every emailLogEvents row was written by a run whose log
\* row is in emailLogs.
C10_LogBeforeEvent ==
    /\ \A r \in Runs :
          /\ runs[r].eventIds # {} => runs[r].loggedIds # {}
          /\ runs[r].loggedIds # {} => runs[r].called /\ runs[r].send # NoSend
          /\ runs[r].pc = "dispatch" => runs[r].loggedIds = {} /\ runs[r].eventIds = {}
    /\ \A e \in emailLogEvents :
          \E r \in Runs : e.id \in runs[r].eventIds /\ RunLogs(r) # {}

\* C10 witness: a run failed between its two inserts and left a log row
\* without an event, while another run has written both rows.
C10_Witness ==
    \E r, q \in Runs :
        /\ runs[r].pc = "failed" /\ runs[r].loggedIds # {} /\ runs[r].eventIds = {}
        /\ RunLogs(r) # {}
        /\ runs[q].eventIds # {}

====
